---- MODULE Spec2Model ----
(***************************************************************************)
(* brocli command-core: command resolution (getCommand, getCommandInner),  *)
(* option parsing (parseArg, parseOptions), the execution pipeline rawCli  *)
(* and the test entry point.                                               *)
(*                                                                         *)
(* A token is a JavaScript string, modelled as the sequence of its         *)
(* characters, so that startsWith, includes, split, join and toLowerCase   *)
(* are computed on the characters.                                         *)
(***************************************************************************)
EXTENDS Integers, Sequences, FiniteSets, TLC

(***************************************************************************)
(* Bounds of the model                                                     *)
(***************************************************************************)
\* longest raw token stream handed to rawCli
MaxArgs == 3
\* longest token stream handed to test
MaxTestArgs == 3

(***************************************************************************)
(* JavaScript strings and values                                           *)
(***************************************************************************)
Range(s) == {s[i] : i \in 1..Len(s)}

\* sequences over S of length 0..n
SeqsUpTo(S, n) == UNION {[1..k -> S] : k \in 0..n}

\* String.prototype.startsWith(c), c a single character
StartsWith(s, c) == Len(s) > 0 /\ s[1] = c

\* String.prototype.includes(c), c a single character
Includes(s, c) == \E i \in 1..Len(s) : s[i] = c

\* String.prototype.split(c): the pieces between the occurrences of c
RECURSIVE Split(_, _)
Split(s, c) ==
  IF ~Includes(s, c) THEN <<s>>
  ELSE LET i == CHOOSE k \in 1..Len(s) : s[k] = c /\ \A j \in 1..(k - 1) : s[j] # c
       IN  <<SubSeq(s, 1, i - 1)>> \o Split(SubSeq(s, i + 1, Len(s)), c)

\* Array.prototype.join(c) on an array of strings
RECURSIVE Join(_, _)
Join(parts, c) ==
  IF Len(parts) = 0 THEN <<>>
  ELSE IF Len(parts) = 1 THEN parts[1]
  ELSE parts[1] \o <<c>> \o Join(Tail(parts), c)

LowerChar(c) ==
  CASE c = "A" -> "a" [] c = "B" -> "b" [] c = "D" -> "d" [] c = "E" -> "e"
    [] c = "F" -> "f" [] c = "H" -> "h" [] c = "L" -> "l" [] c = "P" -> "p"
    [] c = "R" -> "r" [] c = "S" -> "s" [] c = "T" -> "t" [] c = "U" -> "u"
    [] OTHER -> c

\* String.prototype.toLowerCase
ToLowerCase(s) == [i \in 1..Len(s) |-> LowerChar(s[i])]

\* a JavaScript value: undefined, a boolean or a string
Undefined == [kind |-> "undefined"]
BoolV(b) == [kind |-> "boolean", b |-> b]
StrV(s) == [kind |-> "string", s |-> s]
IsStr(v) == v.kind = "string"

\* v?.toLowerCase()
OptLower(v) == IF IsStr(v) THEN StrV(ToLowerCase(v.s)) ELSE v

\* v?.startsWith('-')
OptStartsWithDash(v) == IsStr(v) /\ StartsWith(v.s, "-")

\* arr[i] of a JavaScript array, 0-based, undefined out of range
At(arr, i) == IF i >= 0 /\ i < Len(arr) THEN StrV(arr[i + 1]) ELSE Undefined

removeByIndex(arr, idx) ==
  SubSeq(arr, 1, idx) \o SubSeq(arr, idx + 2, Len(arr))

(***************************************************************************)
(* The tokens used in the checked token streams                            *)
(***************************************************************************)
tDb == <<"d", "b">>
tDbUpper == <<"D", "B">>
tMigrate == <<"m", "i", "g">>
tUp == <<"u", "p">>
tPush == <<"p", "u", "s", "h">>
tHelpWord == <<"h", "e", "l", "p">>
tHelp == <<"-", "-", "h", "e", "l", "p">>
tH == <<"-", "h">>
tVersion == <<"-", "-", "v", "e", "r", "s", "i", "o", "n">>
tV == <<"-", "v">>
tB == <<"-", "-", "b">>
tBEmpty == <<"-", "-", "b", "=">>
tBTrue == <<"-", "-", "b", "=", "T", "R", "U", "E">>
tBZero == <<"-", "-", "b", "=", "0">>
tBBad == <<"-", "-", "b", "=", "x">>
tS == <<"-", "-", "s">>
tSShort == <<"-", "s">>
tSA == <<"-", "-", "s", "=", "a">>
tNope == <<"-", "-", "n", "o", "p", "e">>
tAlso == <<"-", "-", "a", "l", "s", "o", "=", "1">>
tTrue == <<"t", "r", "u", "e">>
tFalse == <<"F", "a", "l", "s", "e">>
tEmpty == <<>>
tA == <<"a">>
tC == <<"c">>
tN == <<"-", "-", "n">>
tN7 == <<"-", "-", "n", "=", "7">>
tNFrac == <<"-", "-", "n", "=", "1", ".", "5">>
tNBad == <<"-", "-", "n", "=", "x">>
tNine == <<"9">>
tN0 == <<"-", "-", "n", "=", "0">>


(***************************************************************************)
(* Option specs, as validateOptions leaves them (names carry the prefix)   *)
(***************************************************************************)
\* enumVals, minVal and maxVal: <<>> stands for undefined
Opt(key, type, name, aliases, isRequired, default, enumVals) ==
  [key |-> key, type |-> type, name |-> name, aliases |-> aliases,
   isRequired |-> isRequired, default |-> default, enumVals |-> enumVals,
   isInt |-> FALSE, minVal |-> <<>>, maxVal |-> <<>>]

optFlag == Opt("flag", "boolean", tB, <<>>, FALSE, Undefined, <<>>)
optStr == Opt("str", "string", tS, <<tSShort>>, TRUE, Undefined, <<>>)
optPos1 == Opt("pos1", "positional", <<"p", "1">>, <<>>, TRUE, Undefined, <<tA, <<"b">>>>)
optPos2 == Opt("pos2", "positional", <<"p", "2">>, <<>>, FALSE, StrV(tA), <<>>)
optNum ==
  [Opt("num", "number", tN, <<>>, TRUE, Undefined, <<>>)
     EXCEPT !.isInt = TRUE, !.minVal = <<1>>, !.maxVal = <<8>>]

(***************************************************************************)
(* Commands, as command() returns them: subcommands <<>> stands for        *)
(* undefined, parent "none" for no parent                                  *)
(***************************************************************************)
Cmd(name, aliases, subcommands, parent, options, handler, transform) ==
  [name |-> name, aliases |-> aliases, subcommands |-> subcommands,
   parent |-> parent, options |-> options, handler |-> handler,
   transform |-> transform]

CommandTable ==
  [id \in {"db", "mig", "up", "push", "pushB", "upB", "deploy", "seed"} |->
     CASE id = "db" -> Cmd(tDb, <<>>, <<"mig">>, "none", <<>>, FALSE, FALSE)
       [] id = "mig" -> Cmd(tMigrate, <<>>, <<"up">>, "db", <<optFlag>>, TRUE, FALSE)
       [] id = "up" -> Cmd(tUp, <<>>, <<>>, "mig", <<>>, TRUE, TRUE)
       [] id = "push" -> Cmd(tPush, <<>>, <<>>, "none", <<optFlag, optStr>>, TRUE, TRUE)
       [] id = "pushB" -> Cmd(tPush, <<tDbUpper>>, <<"upB">>, "none", <<>>, TRUE, FALSE)
       [] id = "upB" -> Cmd(tUp, <<tMigrate>>, <<>>, "pushB", <<optFlag>>, FALSE, FALSE)
       [] id = "deploy" ->
            Cmd(<<"d", "e", "p">>, <<>>, <<>>, "none",
                <<optPos1, optFlag, optStr, optPos2>>, TRUE, TRUE)
       [] id = "seed" -> Cmd(<<"s", "e", "e", "d">>, <<>>, <<>>, "none", <<optNum>>, TRUE, FALSE)]

\* the command forests handed to rawCli
Forests == {<<"db", "push">>, <<"pushB">>}

\* the commands handed to test
TestCommands == {"deploy", "mig", "seed"}

\* the raw tokens of rawCli's argSource (after the first two entries)
CliTokens ==
  {tDb, tDbUpper, tMigrate, tUp, tPush, tHelpWord, tHelp, tV, tB, tSA, tTrue}

\* the tokens of the argument string handed to test
TestTokens(cmd) ==
  IF cmd = "seed" THEN {tN, tN7, tNFrac, tNBad, tN0, tNine}
  ELSE {tNope, tAlso, tA, tC, tB, tBEmpty, tBTrue, tBZero, tBBad, tFalse,
        tEmpty, tHelp, tV, tS, tSA}

(***************************************************************************)
(* Errors: the arguments each message is built from                        *)
(***************************************************************************)
NoError == [type |-> "none"]

\* getCommandNameRecursive: the names from the root down, joined by ' '
RECURSIVE getCommandNameRecursive(_)
getCommandNameRecursive(c) ==
  IF CommandTable[c].parent # "none"
  THEN getCommandNameRecursive(CommandTable[c].parent) \o <<" ">> \o CommandTable[c].name
  ELSE CommandTable[c].name

unknownCommand(caller) == [type |-> "UnknownCommand", caller |-> caller]

unknownSubcommand(command, caller) ==
  [type |-> "UnknownSubcommand", name |-> getCommandNameRecursive(command),
   caller |-> caller]

\* one entry per element of missingOpts: the name, and the aliases when there are some
missingRequired(command, missingOpts) ==
  [type |-> "MissingRequired", command |-> CommandTable[command].name,
   entries |-> [k \in 1..Len(missingOpts) |->
                  [name |-> Head(missingOpts[k]), aliases |-> Tail(missingOpts[k])]]]

unrecognizedOptions(command, unrecognizedArgs) ==
  [type |-> "UnrecognizedOptions", command |-> CommandTable[command].name,
   args |-> unrecognizedArgs]

invalidBooleanSyntax(matchedName) == [type |-> "InvalidBooleanSyntax", name |-> matchedName]
invalidStringSyntax(matchedName) == [type |-> "InvalidStringSyntax", name |-> matchedName]
enumViolation(matchedName, data, values) ==
  [type |-> "EnumViolation", name |-> matchedName, data |-> data, values |-> values]
enumViolationPos(matchedName, data, values) ==
  [type |-> "EnumViolation", name |-> matchedName, data |-> data, values |-> values]
invalidNumberSyntax(matchedName) == [type |-> "InvalidNumberSyntax", name |-> matchedName]
invalidNumberValue(matchedName, data) ==
  [type |-> "InvalidNumberValue", name |-> matchedName, data |-> data]
invalidInteger(matchedName, data) ==
  [type |-> "InvalidInteger", name |-> matchedName, data |-> data]
belowMin(matchedName, data, min) ==
  [type |-> "BelowMin", name |-> matchedName, data |-> data, min |-> min]
aboveMax(matchedName, data, max) ==
  [type |-> "AboveMax", name |-> matchedName, data |-> data, max |-> max]

(***************************************************************************)
(* getCommand: the candidate scan                                          *)
(***************************************************************************)
IsHelpOrVersionFlag(arg) == arg \in {tHelp, tH, tVersion, tV}

IsBoolWord(v) ==
  IsStr(v) /\ v.s \in {<<"0">>, <<"1">>, <<"t", "r", "u", "e">>, <<"f", "a", "l", "s", "e">>}

\* the loop of getCommand from index i on: the candidates it pushes
RECURSIVE ScanFrom(_, _)
ScanFrom(args, i) ==
  IF i >= Len(args) THEN <<>>
  ELSE LET arg == args[i + 1] IN
    IF IsHelpOrVersionFlag(arg)
    THEN IF IsBoolWord(OptLower(At(args, i + 1)))
         THEN ScanFrom(args, i + 2)
         ELSE ScanFrom(args, i + 1)
    ELSE IF StartsWith(arg, "-")
    THEN IF ~Includes(arg, "=") THEN ScanFrom(args, i + 2) ELSE ScanFrom(args, i + 1)
    ELSE <<[data |-> arg, originalIndex |-> i]>> \o ScanFrom(args, i + 1)

ScanCandidates(args) == ScanFrom(args, 0)

\* names of a command: c.aliases ? [c.name, ...c.aliases] : [c.name]
CommandNames(c) == <<CommandTable[c].name>> \o CommandTable[c].aliases

\* the find with names compared without regard to case
FindCommand_IgnoreCase(cmds, arg) ==
  LET hits == {k \in 1..Len(cmds) :
                 \E n \in Range(CommandNames(cmds[k])) : ToLowerCase(n) = ToLowerCase(arg)}
  IN  IF hits = {} THEN "undefined"
      ELSE cmds[CHOOSE k \in hits : \A j \in hits : k <= j]

\* commands.find(...) of getCommandInner: the first command one of whose names is arg
FindCommand(cmds, arg) ==
  LET hits == {k \in 1..Len(cmds) : arg \in Range(CommandNames(cmds[k]))}
  IN  IF hits = {} THEN "undefined"
      ELSE cmds[CHOOSE k \in hits : \A j \in hits : k <= j]

\* the map without the shift of originalIndex
ShiftCandidates_NoShift(cands) ==
  [k \in 1..Len(cands) |->
     [data |-> cands[k].data, originalIndex |-> cands[k].originalIndex]]

\* candidates.map(c => ({data, originalIndex: c.originalIndex - 1}))
ShiftCandidates(cands) ==
  [k \in 1..Len(cands) |->
     [data |-> cands[k].data, originalIndex |-> cands[k].originalIndex - 1]]

(***************************************************************************)
(* Number(dataPart) for decimal literals: [sign] digits [. digits]        *)
(***************************************************************************)
Digits == <<"0", "1", "2", "3", "4", "5", "6", "7", "8", "9">>
IsDigits(s) == \A i \in 1..Len(s) : s[i] \in Range(Digits)
DigitVal(c) == (CHOOSE k \in 1..Len(Digits) : Digits[k] = c) - 1

RECURSIVE DigitsVal(_)
DigitsVal(s) ==
  IF Len(s) = 0 THEN 0 ELSE DigitsVal(SubSeq(s, 1, Len(s) - 1)) * 10 + DigitVal(s[Len(s)])

RECURSIVE Pow10(_)
Pow10(n) == IF n = 0 THEN 1 ELSE 10 * Pow10(n - 1)

\* the number as num / scale, or NaN
Number(s) ==
  LET signed == Len(s) > 0 /\ s[1] \in {"-", "+"}
      body == IF signed THEN Tail(s) ELSE s
      parts == Split(body, ".")
      int == parts[1]
      frac == IF Len(parts) = 2 THEN parts[2] ELSE <<>>
      ok == /\ Len(parts) <= 2
            /\ IsDigits(int) /\ IsDigits(frac)
            /\ Len(int) + Len(frac) > 0
      sgn == IF signed /\ s[1] = "-" THEN -1 ELSE 1
  IN  IF Len(s) = 0 THEN [nan |-> FALSE, num |-> 0, scale |-> 1]
      ELSE IF ~ok THEN [nan |-> TRUE, num |-> 0, scale |-> 1]
      ELSE [nan |-> FALSE, num |-> sgn * DigitsVal(int \o frac), scale |-> Pow10(Len(frac))]

isInt(n) == n.num % n.scale = 0

(***************************************************************************)
(* parseArg                                                                *)
(***************************************************************************)
\* the fields parseArg returns, the error it throws, and the positional
\* queue as positionals.shift() leaves it
ArgRes(isHelp, isVersion, data, skipNext, name, hasOption, positionals, threw) ==
  [isHelp |-> isHelp, isVersion |-> isVersion, data |-> data, skipNext |-> skipNext,
   name |-> name, hasOption |-> hasOption, positionals |-> positionals, threw |-> threw]

OptionNames(opt) == <<opt.name>> \o opt.aliases

\* the callback with the value compared as written
BooleanArg_CaseSensitive(opt, positionals, namePart, hasEq, dataPart, nextArg) ==
  LET lcaseData == dataPart IN
    IF ~hasEq /\ OptStartsWithDash(nextArg)
    THEN ArgRes(FALSE, FALSE, BoolV(TRUE), FALSE, opt.key, TRUE, positionals, NoError)
    ELSE IF lcaseData = Undefined \/ lcaseData \in {StrV(<<>>), StrV(tTrue), StrV(<<"1">>)}
    THEN ArgRes(FALSE, FALSE, BoolV(TRUE), ~hasEq, opt.key, TRUE, positionals, NoError)
    ELSE IF lcaseData \in {StrV(<<"f", "a", "l", "s", "e">>), StrV(<<"0">>)}
    THEN ArgRes(FALSE, FALSE, BoolV(FALSE), ~hasEq, opt.key, TRUE, positionals, NoError)
    ELSE IF ~hasEq
    THEN ArgRes(FALSE, FALSE, BoolV(TRUE), FALSE, opt.key, TRUE, positionals, NoError)
    ELSE ArgRes(FALSE, FALSE, Undefined, ~hasEq, "undefined", FALSE, positionals,
                invalidBooleanSyntax(namePart))

\* the callback of options.find for a boolean option whose name matched
BooleanArg(opt, positionals, namePart, hasEq, dataPart, nextArg) ==
  LET lcaseData == OptLower(dataPart) IN
    IF ~hasEq /\ OptStartsWithDash(nextArg)
    THEN ArgRes(FALSE, FALSE, BoolV(TRUE), FALSE, opt.key, TRUE, positionals, NoError)
    ELSE IF lcaseData = Undefined \/ lcaseData \in {StrV(<<>>), StrV(tTrue), StrV(<<"1">>)}
    THEN ArgRes(FALSE, FALSE, BoolV(TRUE), ~hasEq, opt.key, TRUE, positionals, NoError)
    ELSE IF lcaseData \in {StrV(<<"f", "a", "l", "s", "e">>), StrV(<<"0">>)}
    THEN ArgRes(FALSE, FALSE, BoolV(FALSE), ~hasEq, opt.key, TRUE, positionals, NoError)
    ELSE IF ~hasEq
    THEN ArgRes(FALSE, FALSE, BoolV(TRUE), FALSE, opt.key, TRUE, positionals, NoError)
    ELSE ArgRes(FALSE, FALSE, Undefined, ~hasEq, "undefined", FALSE, positionals,
                invalidBooleanSyntax(namePart))

\* the callback of options.find for a string option whose name matched
StringArg(opt, positionals, namePart, hasEq, dataPart, nextArg) ==
  IF ~hasEq /\ nextArg = Undefined
  THEN ArgRes(FALSE, FALSE, Undefined, ~hasEq, "undefined", FALSE, positionals,
              invalidStringSyntax(namePart))
  ELSE IF opt.enumVals # <<>> /\ ~(IsStr(dataPart) /\ dataPart.s \in Range(opt.enumVals))
  THEN ArgRes(FALSE, FALSE, Undefined, ~hasEq, "undefined", FALSE, positionals,
              enumViolation(namePart, dataPart, opt.enumVals))
  ELSE ArgRes(FALSE, FALSE, dataPart, ~hasEq, opt.key, TRUE, positionals, NoError)

\* the callback of options.find for a number option whose name matched
NumberArg(opt, positionals, namePart, hasEq, dataPart, nextArg) ==
  LET Throw(e) == ArgRes(FALSE, FALSE, Undefined, ~hasEq, "undefined", FALSE, positionals, e)
      numData == Number(dataPart.s)
  IN  IF ~hasEq /\ nextArg = Undefined THEN Throw(invalidNumberSyntax(namePart))
      ELSE IF numData.nan THEN Throw(invalidNumberValue(namePart, dataPart))
      ELSE IF opt.isInt /\ ~isInt(numData) THEN Throw(invalidInteger(namePart, dataPart))
      ELSE IF opt.minVal # <<>> /\ numData.num < opt.minVal[1] * numData.scale
      THEN Throw(belowMin(namePart, dataPart, opt.minVal[1]))
      ELSE IF opt.maxVal # <<>> /\ numData.num > opt.maxVal[1] * numData.scale
      THEN Throw(aboveMax(namePart, dataPart, opt.maxVal[1]))
      ELSE ArgRes(FALSE, FALSE, dataPart, ~hasEq, opt.key, TRUE, positionals, NoError)

\* the branch of parseArg for a token that does not start with '-'
PositionalArg(positionals, arg, dataPart) ==
  IF Len(positionals) = 0
  THEN ArgRes(FALSE, FALSE, Undefined, FALSE, "undefined", FALSE, positionals, NoError)
  ELSE LET pos == Head(positionals) IN
    IF pos.enumVals # <<>> /\ ~(IsStr(dataPart) /\ dataPart.s \in Range(pos.enumVals))
    THEN ArgRes(FALSE, FALSE, Undefined, FALSE, "undefined", FALSE, Tail(positionals),
                enumViolationPos(pos.name, StrV(arg), pos.enumVals))
    ELSE ArgRes(FALSE, FALSE, StrV(arg), FALSE, pos.key, TRUE, Tail(positionals), NoError)

\* options.find(...): the first option one of whose names is namePart
FindOption(options, namePart) ==
  LET hits == {k \in 1..Len(options) : namePart \in Range(OptionNames(options[k]))}
  IN  IF hits = {} THEN 0 ELSE CHOOSE k \in hits : \A j \in hits : k <= j

parseArg(options, positionals, arg, nextArg) ==
  LET argSplit == Split(arg, "=")
      hasEq == Includes(arg, "=")
      namePart == Head(argSplit)
      dataPart == IF hasEq THEN StrV(Join(Tail(argSplit), "=")) ELSE nextArg
      k == FindOption(options, namePart)
  IN  IF namePart \in {tHelp, tH}
      THEN ArgRes(TRUE, FALSE, Undefined, FALSE, "undefined", FALSE, positionals, NoError)
      ELSE IF namePart \in {tVersion, tV}
      THEN ArgRes(FALSE, TRUE, Undefined, FALSE, "undefined", FALSE, positionals, NoError)
      ELSE IF ~StartsWith(arg, "-") THEN PositionalArg(positionals, arg, dataPart)
      ELSE IF k = 0
      THEN ArgRes(FALSE, FALSE, Undefined, ~hasEq, "undefined", FALSE, positionals, NoError)
      ELSE IF options[k].type = "boolean"
      THEN BooleanArg(options[k], positionals, namePart, hasEq, dataPart, nextArg)
      ELSE IF options[k].type = "string"
      THEN StringArg(options[k], positionals, namePart, hasEq, dataPart, nextArg)
      ELSE NumberArg(options[k], positionals, namePart, hasEq, dataPart, nextArg)

(***************************************************************************)
(* State                                                                   *)
(***************************************************************************)
VARIABLES
  entry,        \* "rawCli" or "test": the entry point that was called
  commands,     \* rawCli: the command forest (its top-level commands)
  config,       \* rawCli: config.hook present, config.omitKeysOfUndefinedOptions
  args,         \* the token stream: argSource.slice(2), or test's tokens
  pc,           \* the position in rawCli / test
  events,       \* the events handed to the event handler, in order
  error,        \* the error thrown (rawCli rejects with it, test catches it)
  testResult,   \* the value test returns
  calls,        \* the user callbacks started, in order, with their argument
  running,      \* the user callbacks started and not yet settled
  ret,          \* getCommand: where the caller continues
  gcArgs,       \* getCommand: its args parameter
  candidates,   \* getCommandInner: its candidates parameter
  curCommands,  \* getCommandInner: its commands parameter
  curArgs,      \* getCommandInner: its args parameter
  parentCmd,    \* getCommandInner: the command matched by the calling frame
  gcResult,     \* what getCommand returned
  command,      \* rawCli: the resolved command; test: the command under test
  newArgs,      \* rawCli: the reduced token stream
  newestArgs,   \* rawCli: the token stream of the help loop
  optionResult, \* what parseOptions returned
  pCommand,     \* parseOptions: its command parameter
  pArgs,        \* parseOptions: its args parameter
  i,            \* parseOptions: the loop index
  result,       \* parseOptions: the result record
  unrecognizedArgsArr,  \* parseOptions
  positionalEntries,    \* parseOptions: the positional queue
  rawCommand,   \* command: the definition it is given
  defined,      \* command: the command it returns
  tree,         \* the command objects: for each, its fields as they are now
  argSource,    \* rawCli: the array the caller passed as config.argSource
  run,          \* the number of the invocation on this tree
  history       \* the caller's record of its calls: the array it passed to
                \* this one, and the input and outcome of its first one

defVars == <<rawCommand, defined>>
runVars == <<tree, argSource, run, history>>
inputVars == <<entry, commands, config, args, defVars, runVars>>
outVars == <<events, error, testResult>>
cbVars == <<calls, running>>
gcVars == <<ret, gcArgs, candidates, curCommands, curArgs, parentCmd, gcResult>>
cliVars == <<command, newArgs, newestArgs, optionResult>>
poVars == <<pCommand, pArgs, i, result, unrecognizedArgsArr, positionalEntries>>
vars == <<inputVars, pc, outVars, cbVars, gcVars, cliVars, poVars>>

Configs == [hook : BOOLEAN, omitKeysOfUndefinedOptions : BOOLEAN]

NoResult == [command |-> "undefined", args |-> <<>>]
NoOptions == [kind |-> "none"]
NoTestResult == [type |-> "none"]
NoRawCommand == [name |-> Undefined]
NoCommand == [name |-> Undefined]
NoInput == [entry |-> "none"]
NoHistory ==
  [passed |-> <<>>, prev |-> NoInput,
   first |-> [input |-> NoInput, outcome |-> [error |-> NoError]]]
tNode == <<"n", "o", "d", "e">>
tScript == <<"c", "l", "i">>
\* the first invocation on a tree: nothing has run before it
FirstRun ==
  /\ rawCommand = NoRawCommand /\ defined = NoCommand
  /\ tree = CommandTable /\ run = 1
  /\ history = [NoHistory EXCEPT !.passed = argSource]

Locals ==
  /\ pc = "start"
  /\ events = <<>> /\ error = NoError /\ testResult = NoTestResult
  /\ calls = <<>> /\ running = {}
  /\ ret = "none" /\ gcArgs = <<>> /\ candidates = <<>> /\ curCommands = <<>>
  /\ curArgs = <<>> /\ parentCmd = "none" /\ gcResult = NoResult
  /\ newArgs = <<>> /\ newestArgs = <<>> /\ optionResult = NoOptions
  /\ pCommand = "undefined" /\ pArgs = <<>> /\ i = 0 /\ result = <<>>
  /\ unrecognizedArgsArr = <<>> /\ positionalEntries = <<>>

\* rawCli(commands, config) is called on a validated forest
Init ==
  /\ entry = "rawCli"
  /\ commands \in Forests
  /\ config \in Configs
  /\ args \in SeqsUpTo(CliTokens, MaxArgs)
  /\ argSource = <<tNode, tScript>> \o args
  /\ FirstRun
  /\ command = "undefined"
  /\ Locals

\* test(command, args) is called; args is the tokenized argument string
InitTest ==
  /\ entry = "test"
  /\ commands = <<>>
  /\ config = [hook |-> FALSE, omitKeysOfUndefinedOptions |-> FALSE]
  /\ command \in TestCommands
  /\ argSource = <<>>
  /\ FirstRun
  /\ args \in SeqsUpTo(TestTokens(command), MaxTestArgs)
  /\ Locals

\* a throw: rawCli rejects with e; test catches e and returns it
Throw(e) ==
  /\ error' = e
  /\ testResult' = IF entry = "test" THEN [type |-> "error", error |-> e] ELSE testResult
  /\ pc' = "done"

Emit(ev) == events' = Append(events, ev)

(***************************************************************************)
(* getCommand and getCommandInner                                          *)
(***************************************************************************)
\* the call with the 'help' token left in the stream
getCommand_KeepHelp(a, r) ==
  LET cands == ScanCandidates(a) IN
    /\ ret' = r
    /\ gcArgs' = a
    /\ IF Len(cands) = 0
       THEN /\ gcResult' = [command |-> "undefined", args |-> a]
            /\ pc' = r
            /\ UNCHANGED <<candidates, curCommands, curArgs, parentCmd>>
       ELSE IF cands[1].data = tHelpWord
       THEN /\ gcResult' = [command |-> "help", args |-> a]
            /\ pc' = r
            /\ UNCHANGED <<candidates, curCommands, curArgs, parentCmd>>
       ELSE /\ candidates' = cands
            /\ curCommands' = commands
            /\ curArgs' = a
            /\ parentCmd' = "none"
            /\ pc' = "getCommandInner"
            /\ UNCHANGED gcResult

\* a call getCommand(commands, a) whose caller continues at r: the scan and
\* the two early returns
getCommand(a, r) ==
  LET cands == ScanCandidates(a) IN
    /\ ret' = r
    /\ gcArgs' = a
    /\ IF Len(cands) = 0
       THEN /\ gcResult' = [command |-> "undefined", args |-> a]
            /\ pc' = r
            /\ UNCHANGED <<candidates, curCommands, curArgs, parentCmd>>
       ELSE IF cands[1].data = tHelpWord
       THEN /\ gcResult' = [command |-> "help",
                            args |-> removeByIndex(a, cands[1].originalIndex)]
            /\ pc' = r
            /\ UNCHANGED <<candidates, curCommands, curArgs, parentCmd>>
       ELSE /\ candidates' = cands
            /\ curCommands' = commands
            /\ curArgs' = a
            /\ parentCmd' = "none"
            /\ pc' = "getCommandInner"
            /\ UNCHANGED gcResult

\* one call of getCommandInner. A frame that gets a match from its recursive
\* call returns it unchanged; a frame that gets none throws unknownSubcommand;
\* getCommand throws unknownCommand when the outermost frame finds none.
getCommandInner ==
  /\ pc = "getCommandInner"
  /\ LET arg == Head(candidates).data
         index == Head(candidates).originalIndex
         rest == Tail(candidates)
         cmd == FindCommand(curCommands, arg)
         reduced == removeByIndex(curArgs, index)
     IN  IF cmd = "undefined"
         THEN /\ Throw(IF parentCmd = "none" THEN unknownCommand(arg)
                       ELSE unknownSubcommand(parentCmd, arg))
              /\ UNCHANGED <<events, gcVars>>
         ELSE IF Len(rest) = 0 \/ CommandTable[cmd].subcommands = <<>>
         THEN /\ gcResult' = [command |-> cmd, args |-> reduced]
              /\ pc' = ret
              /\ UNCHANGED <<outVars, ret, gcArgs, candidates, curCommands, curArgs, parentCmd>>
         ELSE /\ curCommands' = CommandTable[cmd].subcommands
              /\ candidates' = ShiftCandidates(rest)
              /\ curArgs' = reduced
              /\ parentCmd' = cmd
              /\ UNCHANGED <<pc, outVars, ret, gcArgs, gcResult>>
  /\ UNCHANGED <<inputVars, cbVars, cliVars, poVars>>

(***************************************************************************)
(* parseOptions                                                            *)
(***************************************************************************)
\* optEntries.filter(...)
FilterOptions(opts, positional) ==
  SelectSeq(opts, LAMBDA o : (o.type = "positional") = positional)

\* result[key] = value
Put(r, key, value) ==
  [x \in DOMAIN r \cup {key} |-> IF x = key THEN value ELSE r[x]]

\* result[key]
Get(r, key) == IF key \in DOMAIN r THEN r[key] ELSE Undefined

\* the entry of parseOptions with the positional queue of a command kept
\* from one call to the next
parseOptions_SharedQueue(cmd, a) ==
  /\ pCommand' = cmd
  /\ pArgs' = a
  /\ i' = 0
  /\ result' = <<>>
  /\ unrecognizedArgsArr' = <<>>
  /\ positionalEntries' = IF pCommand = cmd THEN positionalEntries
                          ELSE FilterOptions(CommandTable[cmd].options, TRUE)
  /\ pc' = "parseLoop"

\* the entry of parseOptions(cmd, a, ...): its locals before the loop
parseOptions(cmd, a) ==
  /\ pCommand' = cmd
  /\ pArgs' = a
  /\ i' = 0
  /\ result' = <<>>
  /\ unrecognizedArgsArr' = <<>>
  /\ positionalEntries' = FilterOptions(CommandTable[cmd].options, TRUE)
  /\ pc' = "parseLoop"

\* parseOptions returns v to its caller
ParseReturn(v) ==
  /\ optionResult' = v
  /\ pc' = IF entry = "test" THEN "testParsed" ELSE "parsed"

\* one iteration of the loop over args
ParseLoop ==
  /\ pc = "parseLoop"
  /\ i < Len(pArgs)
  /\ LET arg == pArgs[i + 1]
         nextArg == At(pArgs, i + 1)
         r == parseArg(FilterOptions(CommandTable[pCommand].options, FALSE),
                       positionalEntries, arg, nextArg)
     IN  IF r.threw # NoError
         THEN /\ Throw(r.threw)
              /\ UNCHANGED <<events, optionResult, i, result, unrecognizedArgsArr,
                             positionalEntries>>
         ELSE /\ unrecognizedArgsArr' =
                   IF ~r.hasOption THEN Append(unrecognizedArgsArr, Head(Split(arg, "=")))
                   ELSE unrecognizedArgsArr
              /\ i' = IF r.skipNext THEN i + 2 ELSE i + 1
              /\ result' = Put(result, r.name, r.data)
              /\ positionalEntries' = r.positionals
              /\ IF r.isHelp THEN ParseReturn([kind |-> "help"])
                 ELSE IF r.isVersion THEN ParseReturn([kind |-> "version"])
                 ELSE UNCHANGED <<pc, optionResult>>
              /\ UNCHANGED outVars
  /\ UNCHANGED <<inputVars, cbVars, gcVars, command, newArgs, newestArgs, pCommand, pArgs>>

\* the loop over optEntries from entry k on: the result record and
\* missingRequiredArr it leaves
RECURSIVE Defaulted(_, _, _, _, _)
Defaulted(opts, k, omit, res, missing) ==
  IF k > Len(opts) THEN [result |-> res, missingRequiredArr |-> missing]
  ELSE LET option == opts[k]
           got == Get(res, option.key)
           data == IF got = Undefined THEN option.default ELSE got
           res2 == IF ~omit \/ data # Undefined THEN Put(res, option.key, data) ELSE res
           missing2 == IF option.isRequired /\ Get(res2, option.key) = Undefined
                       THEN Append(missing, OptionNames(option))
                       ELSE missing
       IN  Defaulted(opts, k + 1, omit, res2, missing2)

\* the end of parseOptions with the two aggregate errors in the other order
ParseFinish_UnrecognizedFirst ==
  /\ pc = "parseLoop"
  /\ i >= Len(pArgs)
  /\ LET d == Defaulted(CommandTable[pCommand].options, 1,
                        config.omitKeysOfUndefinedOptions, result, <<>>)
     IN  /\ result' = d.result
         /\ IF Len(unrecognizedArgsArr) > 0
            THEN /\ Throw(unrecognizedOptions(pCommand, unrecognizedArgsArr))
                 /\ UNCHANGED optionResult
            ELSE IF Len(d.missingRequiredArr) > 0
            THEN /\ Throw(missingRequired(pCommand, d.missingRequiredArr))
                 /\ UNCHANGED optionResult
            ELSE /\ ParseReturn(IF DOMAIN d.result # {}
                                THEN [kind |-> "options", options |-> d.result]
                                ELSE [kind |-> "undefined"])
                 /\ UNCHANGED <<error, testResult>>
  /\ UNCHANGED <<inputVars, events, cbVars, gcVars, command, newArgs, newestArgs,
                 pCommand, pArgs, i, unrecognizedArgsArr, positionalEntries>>

\* after the loop over args: defaults, then the aggregate errors, then the result
ParseFinish ==
  /\ pc = "parseLoop"
  /\ i >= Len(pArgs)
  /\ LET d == Defaulted(CommandTable[pCommand].options, 1,
                        config.omitKeysOfUndefinedOptions, result, <<>>)
     IN  /\ result' = d.result
         /\ IF Len(d.missingRequiredArr) > 0
            THEN /\ Throw(missingRequired(pCommand, d.missingRequiredArr))
                 /\ UNCHANGED optionResult
            ELSE IF Len(unrecognizedArgsArr) > 0
            THEN /\ Throw(unrecognizedOptions(pCommand, unrecognizedArgsArr))
                 /\ UNCHANGED optionResult
            ELSE /\ ParseReturn(IF DOMAIN d.result # {}
                                THEN [kind |-> "options", options |-> d.result]
                                ELSE [kind |-> "undefined"])
                 /\ UNCHANGED <<error, testResult>>
  /\ UNCHANGED <<inputVars, events, cbVars, gcVars, command, newArgs, newestArgs,
                 pCommand, pArgs, i, unrecognizedArgsArr, positionalEntries>>

(***************************************************************************)
(* rawCli                                                                  *)
(***************************************************************************)
\* args.findIndex(arg => arg is one of names), 0-based, -1 when there is none
FindIndex(a, names) ==
  LET hits == {k \in 1..Len(a) : a[k] \in names}
  IN  IF hits = {} THEN -1 ELSE (CHOOSE k \in hits : \A j \in hits : k <= j) - 1

\* the condition of the --help / -h branch
HelpCondition(a) ==
  LET helpIndex == FindIndex(a, {tHelp, tH}) IN
    /\ helpIndex # -1
    /\ IF helpIndex > 0
       THEN IF OptStartsWithDash(At(a, helpIndex - 1)) /\ ~Includes(a[helpIndex], "=")
            THEN FALSE ELSE TRUE
       ELSE TRUE

\* the condition of the --version / -v branch
VersionCondition(a) ==
  LET versionIndex == FindIndex(a, {tVersion, tV}) IN
    /\ versionIndex # -1
    /\ IF versionIndex > 0
       THEN IF OptStartsWithDash(At(a, versionIndex - 1)) THEN FALSE ELSE TRUE
       ELSE TRUE

GlobalHelp == [type |-> "globalHelp", command |-> "undefined"]
CommandHelp(c) == [type |-> "commandHelp", command |-> c]
Version == [type |-> "version", command |-> "undefined"]

\* no arguments at all: global help
EmptyArgs ==
  /\ pc = "start" /\ entry = "rawCli"
  /\ Len(args) = 0
  /\ Emit(GlobalHelp)
  /\ pc' = "done"
  /\ UNCHANGED <<inputVars, error, testResult, cbVars, gcVars, cliVars, poVars>>

\* the --help / -h branch: resolve the command of the help event
HelpFlag ==
  /\ pc = "start" /\ entry = "rawCli"
  /\ Len(args) # 0
  /\ HelpCondition(args)
  /\ getCommand(args, "helpFlag")
  /\ UNCHANGED <<inputVars, outVars, cbVars, cliVars, poVars>>

\* the help event with a truthiness test on the command
HelpFlagReturn_Truthy ==
  /\ pc = "helpFlag"
  /\ IF gcResult.command # "undefined"
     THEN Emit(CommandHelp(gcResult.command))
     ELSE Emit(GlobalHelp)
  /\ pc' = "done"
  /\ UNCHANGED <<inputVars, error, testResult, cbVars, gcVars, cliVars, poVars>>

HelpFlagReturn ==
  /\ pc = "helpFlag"
  /\ IF gcResult.command \notin {"undefined", "help"}
     THEN Emit(CommandHelp(gcResult.command))
     ELSE Emit(GlobalHelp)
  /\ pc' = "done"
  /\ UNCHANGED <<inputVars, error, testResult, cbVars, gcVars, cliVars, poVars>>

\* the --version / -v branch
VersionFlag ==
  /\ pc = "start" /\ entry = "rawCli"
  /\ Len(args) # 0
  /\ ~HelpCondition(args)
  /\ VersionCondition(args)
  /\ Emit(Version)
  /\ pc' = "done"
  /\ UNCHANGED <<inputVars, error, testResult, cbVars, gcVars, cliVars, poVars>>

\* const { command, args: newArgs } = getCommand(processedCmds, args)
Resolve ==
  /\ pc = "start" /\ entry = "rawCli"
  /\ Len(args) # 0
  /\ ~HelpCondition(args)
  /\ ~VersionCondition(args)
  /\ getCommand(args, "resolve")
  /\ UNCHANGED <<inputVars, outVars, cbVars, cliVars, poVars>>

\* the return without the global help event
ResolveReturn_NoEvent ==
  /\ pc = "resolve"
  /\ command' = gcResult.command
  /\ newArgs' = gcResult.args
  /\ IF gcResult.command = "undefined"
     THEN /\ pc' = "done"
          /\ UNCHANGED <<events, newestArgs, poVars>>
     ELSE IF gcResult.command = "help"
     THEN /\ newestArgs' = gcResult.args
          /\ pc' = "helpLoop"
          /\ UNCHANGED <<events, poVars>>
     ELSE /\ parseOptions(gcResult.command, gcResult.args)
          /\ UNCHANGED <<events, newestArgs>>
  /\ UNCHANGED <<inputVars, error, testResult, cbVars, gcVars, optionResult>>

\* no command: global help; 'help': the help loop; a command: parseOptions
ResolveReturn ==
  /\ pc = "resolve"
  /\ command' = gcResult.command
  /\ newArgs' = gcResult.args
  /\ IF gcResult.command = "undefined"
     THEN /\ Emit(GlobalHelp)
          /\ pc' = "done"
          /\ UNCHANGED <<newestArgs, poVars>>
     ELSE IF gcResult.command = "help"
     THEN /\ newestArgs' = gcResult.args
          /\ pc' = "helpLoop"
          /\ UNCHANGED <<events, poVars>>
     ELSE /\ parseOptions(gcResult.command, gcResult.args)
          /\ UNCHANGED <<events, newestArgs>>
  /\ UNCHANGED <<inputVars, error, testResult, cbVars, gcVars, optionResult>>

\* the body of the do-while: res = getCommand(processedCmds, newestArgs)
HelpLoop ==
  /\ pc = "helpLoop"
  /\ getCommand(newestArgs, "helpLoopReturn")
  /\ UNCHANGED <<inputVars, outVars, cbVars, cliVars, poVars>>

\* the assignments from res, the loop condition, and the event after the loop
HelpLoopReturn ==
  /\ pc = "helpLoopReturn"
  /\ newestArgs' = gcResult.args
  /\ IF gcResult.command = "help"
     THEN /\ pc' = "helpLoop"
          /\ UNCHANGED events
     ELSE /\ IF gcResult.command # "undefined"
             THEN Emit(CommandHelp(gcResult.command))
             ELSE Emit(GlobalHelp)
          /\ pc' = "done"
  /\ UNCHANGED <<inputVars, error, testResult, cbVars, gcVars, command, newArgs,
                 optionResult, poVars>>

\* after parseOptions: the sentinels, and the command without a handler
Parsed ==
  /\ pc = "parsed"
  /\ IF optionResult.kind = "help"
     THEN Emit(CommandHelp(command)) /\ pc' = "done"
     ELSE IF optionResult.kind = "version"
     THEN Emit(Version) /\ pc' = "done"
     ELSE IF CommandTable[command].handler
     THEN pc' = "beforeHook" /\ UNCHANGED events
     ELSE Emit(CommandHelp(command)) /\ pc' = "done"
  /\ UNCHANGED <<inputVars, error, testResult, cbVars, gcVars, cliVars, poVars>>

(***************************************************************************)
(* The user callbacks: each is started, and settles later (await)          *)
(***************************************************************************)
Transformed(options) == [kind |-> "transformed", of |-> options]

Start(fn, arg) ==
  /\ calls' = Append(calls, [fn |-> fn, arg |-> arg])
  /\ running' = running \cup {fn}

\* the awaited callback fn settles: it returns, or it throws
Settle(fn, ok, next) ==
  /\ fn \in running
  /\ running' = running \ {fn}
  /\ IF ok THEN pc' = next /\ UNCHANGED <<error, testResult>>
     ELSE Throw([type |-> "CallbackError", fn |-> fn])
  /\ UNCHANGED <<inputVars, events, calls, gcVars, cliVars, poVars>>

\* if (config?.hook) await config.hook('before', command)
BeforeHook ==
  /\ pc = "beforeHook"
  /\ IF config.hook
     THEN Start("before", command) /\ pc' = "awaitBefore"
     ELSE pc' = "transform" /\ UNCHANGED cbVars
  /\ UNCHANGED <<inputVars, outVars, gcVars, cliVars, poVars>>

BeforeHookSettles ==
  /\ pc = "awaitBefore"
  /\ \E ok \in BOOLEAN : Settle("before", ok, "transform")

\* the transform started and not awaited
Transform_NotAwaited ==
  /\ pc = "transform"
  /\ IF CommandTable[command].transform
     THEN Start("transform", optionResult) /\ pc' = "handler"
     ELSE pc' = "handler" /\ UNCHANGED cbVars
  /\ UNCHANGED <<inputVars, outVars, gcVars, cliVars, poVars>>

\* command.transform ? await command.transform(optionResult) : optionResult
Transform ==
  /\ pc = "transform"
  /\ IF CommandTable[command].transform
     THEN Start("transform", optionResult) /\ pc' = "awaitTransform"
     ELSE pc' = "handler" /\ UNCHANGED cbVars
  /\ UNCHANGED <<inputVars, outVars, gcVars, cliVars, poVars>>

TransformSettles ==
  /\ pc = "awaitTransform"
  /\ \E ok \in BOOLEAN : Settle("transform", ok, "handler")

\* await command.handler(...)
Handler ==
  /\ pc = "handler"
  /\ Start("handler", IF CommandTable[command].transform
                      THEN Transformed(optionResult) ELSE optionResult)
  /\ pc' = "awaitHandler"
  /\ UNCHANGED <<inputVars, outVars, gcVars, cliVars, poVars>>

HandlerSettles ==
  /\ pc = "awaitHandler"
  /\ \E ok \in BOOLEAN : Settle("handler", ok, "afterHook")

\* if (config?.hook) await config.hook('after', command); return undefined
AfterHook ==
  /\ pc = "afterHook"
  /\ IF config.hook
     THEN Start("after", command) /\ pc' = "awaitAfter"
     ELSE pc' = "done" /\ UNCHANGED cbVars
  /\ UNCHANGED <<inputVars, outVars, gcVars, cliVars, poVars>>

AfterHookSettles ==
  /\ pc = "awaitAfter"
  /\ \E ok \in BOOLEAN : Settle("after", ok, "done")

(***************************************************************************)
(* test                                                                    *)
(***************************************************************************)
\* const options = parseOptions(command, cliParsedArgs)
Test ==
  /\ pc = "start" /\ entry = "test"
  /\ parseOptions(command, args)
  /\ UNCHANGED <<inputVars, outVars, cbVars, gcVars, cliVars>>

\* the sentinels, or the (transformed) options
TestParsed ==
  /\ pc = "testParsed"
  /\ IF optionResult.kind \in {"help", "version"}
     THEN /\ testResult' = [type |-> optionResult.kind]
          /\ pc' = "done"
          /\ UNCHANGED cbVars
     ELSE IF CommandTable[command].transform
     THEN /\ Start("transform", optionResult)
          /\ pc' = "testAwaitTransform"
          /\ UNCHANGED testResult
     ELSE /\ testResult' = [type |-> "handler", options |-> optionResult]
          /\ pc' = "done"
          /\ UNCHANGED cbVars
  /\ UNCHANGED <<inputVars, events, error, gcVars, cliVars, poVars>>

TestTransformSettles ==
  /\ pc = "testAwaitTransform"
  /\ "transform" \in running
  /\ running' = running \ {"transform"}
  /\ \E ok \in BOOLEAN :
       IF ok
       THEN /\ testResult' = [type |-> "handler", options |-> Transformed(optionResult)]
            /\ pc' = "done"
            /\ UNCHANGED error
       ELSE Throw([type |-> "CallbackError", fn |-> "transform"])
  /\ UNCHANGED <<inputVars, events, calls, gcVars, cliVars, poVars>>

(***************************************************************************)
(* Specifications                                                          *)
(***************************************************************************)
Next ==
  \/ EmptyArgs \/ HelpFlag \/ HelpFlagReturn \/ VersionFlag
  \/ Resolve \/ ResolveReturn \/ HelpLoop \/ HelpLoopReturn
  \/ getCommandInner
  \/ ParseLoop \/ ParseFinish \/ Parsed
  \/ BeforeHook \/ BeforeHookSettles \/ Transform \/ TransformSettles
  \/ Handler \/ HandlerSettles \/ AfterHook \/ AfterHookSettles

Spec == Init /\ [][Next]_vars

\* rawCli called on a stream whose first candidate is the literal 'help'
InitHelp ==
  /\ Init
  /\ ScanCandidates(args) # <<>>
  /\ ScanCandidates(args)[1].data = tHelpWord

\* the steps of rawCli such a run can take: the short circuits, resolution and
\* the help loop. A run that left them (into parseOptions, say) would stop
\* short of its end.
NextHelp ==
  \/ HelpFlag \/ HelpFlagReturn \/ VersionFlag
  \/ Resolve \/ ResolveReturn \/ HelpLoop \/ HelpLoopReturn
  \/ getCommandInner

\* rawCli is a single thread of control: each step is taken once it is enabled
FairSpecHelp == InitHelp /\ [][NextHelp]_vars /\ WF_vars(NextHelp)

NextTest == Test \/ ParseLoop \/ ParseFinish \/ TestParsed \/ TestTransformSettles

SpecTest == InitTest /\ [][NextTest]_vars

(***************************************************************************)
(* What resolution is expected to give, stated on the tree                 *)
(***************************************************************************)
AllCommands == DOMAIN CommandTable

\* the commands from the root down to c
RECURSIVE PathTo(_)
PathTo(c) ==
  IF CommandTable[c].parent = "none" THEN <<c>>
  ELSE PathTo(CommandTable[c].parent) \o <<c>>

\* the names along the path to c, separated by one space
FullPathName(c) ==
  Join([j \in 1..Len(PathTo(c)) |-> CommandTable[PathTo(c)[j]].name], " ")

\* p is a path of the forest whose j-th command is named by the j-th candidate
IsChain(p, cands, roots) ==
  /\ Len(p) >= 1 /\ Len(p) <= Len(cands)
  /\ p[1] \in Range(roots)
  /\ \A j \in 1..Len(p) :
       cands[j].data \in {CommandTable[p[j]].name} \cup Range(CommandTable[p[j]].aliases)
  /\ \A j \in 2..Len(p) : p[j] \in Range(CommandTable[p[j - 1]].subcommands)

\* the tokens of a at the 0-based positions outside idxs, in their order
KeepExcept(a, idxs) ==
  LET keep == {k \in 1..Len(a) : (k - 1) \notin idxs}
      nth(j) == CHOOSE k \in keep : Cardinality({m \in keep : m <= k}) = j
  IN  [j \in 1..Cardinality(keep) |-> a[nth(j)]]

\* the outcome expected of resolving token stream a against the forest roots
Resolution(a, roots) ==
  LET cands == ScanCandidates(a)
      chain == {c \in AllCommands : IsChain(PathTo(c), cands, roots)}
      deepest == CHOOSE c \in chain : \A e \in chain : Len(PathTo(e)) <= Len(PathTo(c))
      d == Len(PathTo(deepest))
  IN  IF cands = <<>> THEN [kind |-> "none"]
      ELSE IF cands[1].data = tHelpWord THEN [kind |-> "help"]
      ELSE IF chain = {} THEN [kind |-> "unknownCommand", text |-> cands[1].data]
      ELSE IF CommandTable[deepest].subcommands = <<>> \/ d = Len(cands)
      THEN [kind |-> "command", command |-> deepest]
      ELSE [kind |-> "unknownSubcommand", parent |-> deepest, text |-> cands[d + 1].data]

ReturnPoints == {"helpFlag", "resolve", "helpLoopReturn"}

(***************************************************************************)
(* C1: when resolution succeeds on a stream whose first candidate is not   *)
(* 'help', the command returned is the deepest one matched by the leading  *)
(* candidates (descent stops only at a command without children or when    *)
(* the candidates are used up), the tokens returned are the original       *)
(* stream without the tokens at the matched candidates' positions, in      *)
(* order, and at every recursion depth the token at each candidate's       *)
(* shifted originalIndex is the candidate's own text.                      *)
(***************************************************************************)
C1_DeepestMatch ==
  /\ pc = "getCommandInner" =>
       \A k \in 1..Len(candidates) :
         At(curArgs, candidates[k].originalIndex) = StrV(candidates[k].data)
  /\ (pc \in ReturnPoints /\ gcResult.command \notin {"undefined", "help"}) =>
       LET cands == ScanCandidates(gcArgs)
           path == PathTo(gcResult.command)
       IN  /\ IsChain(path, cands, commands)
           /\ \/ CommandTable[gcResult.command].subcommands = <<>>
              \/ Len(path) = Len(cands)
           /\ gcResult.args =
                KeepExcept(gcArgs, {cands[j].originalIndex : j \in 1..Len(path)})

\* a subcommand was resolved past a flag standing between the two candidates
C1_Witness ==
  /\ pc \in ReturnPoints
  /\ gcResult.command \notin {"undefined", "help"}
  /\ Len(PathTo(gcResult.command)) >= 2
  /\ ScanCandidates(gcArgs)[2].originalIndex > 1
  /\ gcResult.args # <<>>

(***************************************************************************)
(* C8: a call of getCommand throws UnknownCommand with the first           *)
(* candidate's text exactly when that candidate (not 'help') is no name or *)
(* alias of a top-level command, and UnknownSubcommand with the matched    *)
(* parent's full path and the offending candidate's text exactly when the  *)
(* candidate after a matched command with children is no name or alias of  *)
(* its children; names are compared exactly (case-sensitively), and        *)
(* candidates after a matched command without children raise nothing.      *)
(***************************************************************************)
C8_ResolutionErrors ==
  (pc \in ReturnPoints \/ (pc = "done" /\ error.type \in {"UnknownCommand", "UnknownSubcommand"}))
    => LET r == Resolution(gcArgs, commands) IN
         CASE r.kind = "unknownCommand" ->
                pc = "done" /\ error = [type |-> "UnknownCommand", caller |-> r.text]
           [] r.kind = "unknownSubcommand" ->
                /\ pc = "done"
                /\ error = [type |-> "UnknownSubcommand", name |-> FullPathName(r.parent),
                            caller |-> r.text]
           [] OTHER -> pc # "done" /\ error = NoError

\* a candidate differing only in case from the parent's own name was refused
\* below a matched parent
C8_Witness ==
  /\ pc = "done"
  /\ error.type = "UnknownSubcommand"
  /\ error.name = tDb
  /\ error.caller = tDbUpper

(***************************************************************************)
(* C4, as claimed: a non-empty stream with a qualifying --help / -h (any   *)
(* occurrence at index 0 or not right after a flag-prefixed token without  *)
(* '=') always ends with exactly one help event, CommandHelp for the       *)
(* resolvable command and GlobalHelp otherwise, with no resolution error   *)
(* and no callback.                                                        *)
(***************************************************************************)
IsHelpFlag(t) == t \in {tHelp, tH}

QualifiesAt(a, k) ==
  k = 1 \/ ~(StartsWith(a[k - 1], "-") /\ ~Includes(a[k - 1], "="))

AnyHelpQualifies(a) == \E k \in 1..Len(a) : IsHelpFlag(a[k]) /\ QualifiesAt(a, k)

FirstHelpQualifies(a) ==
  \E k \in 1..Len(a) :
    /\ IsHelpFlag(a[k])
    /\ \A j \in 1..(k - 1) : ~IsHelpFlag(a[j])
    /\ QualifiesAt(a, k)

C4_AsClaimed ==
  (entry = "rawCli" /\ pc = "done" /\ Len(args) > 0 /\ AnyHelpQualifies(args)) =>
    LET r == Resolution(args, commands) IN
      /\ error = NoError
      /\ calls = <<>>
      /\ events = <<IF r.kind = "command" THEN CommandHelp(r.command) ELSE GlobalHelp>>

(***************************************************************************)
(* C4, amended: for a non-empty stream whose first --help / -h occurrence  *)
(* qualifies, no hook, transform or handler is ever invoked, and the run   *)
(* ends either with the resolution error of a candidate that fails to      *)
(* match (no event), or with exactly one help event: CommandHelp for the   *)
(* command resolved from the stream, GlobalHelp when there is no candidate *)
(* or the first candidate is the literal 'help'.                           *)
(***************************************************************************)
C4_HelpFlagWins ==
  (entry = "rawCli" /\ Len(args) > 0 /\ FirstHelpQualifies(args)) =>
    /\ calls = <<>>
    /\ pc = "done" =>
         LET r == Resolution(args, commands) IN
           CASE r.kind = "command" ->
                  error = NoError /\ events = <<CommandHelp(r.command)>>
             [] r.kind \in {"none", "help"} ->
                  error = NoError /\ events = <<GlobalHelp>>
             [] OTHER ->
                  error.type \in {"UnknownCommand", "UnknownSubcommand"} /\ events = <<>>

\* push --help ended with the help of push
C4_Witness ==
  /\ pc = "done"
  /\ Len(args) >= 2 /\ args[1] = tPush /\ IsHelpFlag(args[2])
  /\ events = <<CommandHelp("push")>>

(***************************************************************************)
(* C9, as claimed: with no --help / --version short circuit, a stream      *)
(* without candidates, or whose candidates match no command, ends with     *)
(* the globalHelp event and no callback.                                   *)
(***************************************************************************)
ForestCommands == {c \in AllCommands : PathTo(c)[1] \in Range(commands)}

NoCandidateMatches(a) ==
  \A k \in 1..Len(ScanCandidates(a)) :
    /\ ScanCandidates(a)[k].data # tHelpWord
    /\ \A c \in ForestCommands :
         ScanCandidates(a)[k].data \notin
           {CommandTable[c].name} \cup Range(CommandTable[c].aliases)

NoShortCircuit == entry = "rawCli" /\ ~HelpCondition(args) /\ ~VersionCondition(args)

C9_AsClaimed ==
  (NoShortCircuit /\ pc = "done" /\ NoCandidateMatches(args)) =>
    events = <<GlobalHelp>> /\ calls = <<>>

(***************************************************************************)
(* C9, amended: with no --help / --version short circuit, a stream in      *)
(* which the scanner finds no candidate ends with the globalHelp event;    *)
(* a stream whose first candidate (not 'help') is no name or alias of a    *)
(* top-level command ends with UnknownCommand for that candidate and no    *)
(* event; in both cases no callback is invoked.                            *)
(***************************************************************************)
C9_NoCommand ==
  (NoShortCircuit /\ pc = "done") =>
    LET r == Resolution(args, commands) IN
      /\ r.kind = "none" => events = <<GlobalHelp>> /\ error = NoError /\ calls = <<>>
      /\ r.kind = "unknownCommand" =>
           /\ error = [type |-> "UnknownCommand", caller |-> r.text]
           /\ events = <<>>
           /\ calls = <<>>

\* a stream with a token that is no flag, and yet no candidate, ended with
\* the global help
C9_Witness ==
  /\ NoShortCircuit /\ pc = "done"
  /\ \E k \in 1..Len(args) : ~StartsWith(args[k], "-")
  /\ ScanCandidates(args) = <<>>
  /\ events = <<GlobalHelp>>

(***************************************************************************)
(* C5: user callbacks are invoked only once parseOptions has returned      *)
(* options for a resolved command that has a handler, never after a help   *)
(* or version event or an error; they are the before-hook, the transform,  *)
(* the handler (on the transformed, else the raw options) and the          *)
(* after-hook, in that order and each at most once; one starts only when   *)
(* the previous one has settled; after a failure none is started.          *)
(***************************************************************************)
ExpectedCalls ==
  (IF config.hook THEN <<"before">> ELSE <<>>)
    \o (IF CommandTable[command].transform THEN <<"transform">> ELSE <<>>)
    \o <<"handler">>
    \o (IF config.hook THEN <<"after">> ELSE <<>>)

ExpectedArg(fn) ==
  CASE fn \in {"before", "after"} -> command
    [] fn = "transform" -> optionResult
    [] fn = "handler" ->
         IF CommandTable[command].transform THEN Transformed(optionResult) ELSE optionResult

C5_CallbackOrder ==
  entry = "rawCli" =>
    /\ calls # <<>> =>
         /\ command \in AllCommands
         /\ CommandTable[command].handler
         /\ optionResult.kind \in {"options", "undefined"}
         /\ events = <<>>
         /\ Len(calls) <= Len(ExpectedCalls)
         /\ \A k \in 1..Len(calls) :
              calls[k] = [fn |-> ExpectedCalls[k], arg |-> ExpectedArg(ExpectedCalls[k])]
         /\ running \subseteq {calls[Len(calls)].fn}
         /\ error # NoError =>
              /\ error = [type |-> "CallbackError", fn |-> calls[Len(calls)].fn]
              /\ pc = "done"
              /\ running = {}
    /\ calls = <<>> => running = {}

\* all four callbacks ran, in order
C5_Witness ==
  /\ entry = "rawCli" /\ pc = "done" /\ error = NoError
  /\ Len(calls) = 4

(***************************************************************************)
(* C10: when the first candidate is the literal 'help' and nothing short   *)
(* circuits, every round of the loop removes exactly the leading 'help'    *)
(* token from the stream it resolves, the loop ends, and the run ends with *)
(* CommandHelp for the command resolved from what remains, or GlobalHelp   *)
(* when no candidate remains (or with the resolution error when what       *)
(* remains does not resolve); options are never parsed and no callback is  *)
(* invoked.                                                                *)
(***************************************************************************)
RECURSIVE StripHelp(_)
StripHelp(a) ==
  LET cands == ScanCandidates(a) IN
    IF cands # <<>> /\ cands[1].data = tHelpWord
    THEN StripHelp(removeByIndex(a, cands[1].originalIndex))
    ELSE a

HelpLiteralRun == NoShortCircuit /\ Resolution(args, commands).kind = "help"

HelpRunOutcome ==
  HelpLiteralRun =>
    /\ calls = <<>>
    /\ pCommand = "undefined"
    /\ pc = "done" =>
         LET r == Resolution(StripHelp(args), commands) IN
           CASE r.kind = "command" ->
                  error = NoError /\ events = <<CommandHelp(r.command)>>
             [] r.kind = "none" -> error = NoError /\ events = <<GlobalHelp>>
             [] OTHER ->
                  error.type \in {"UnknownCommand", "UnknownSubcommand"} /\ events = <<>>

\* a step into the next round: the stream lost its first candidate, a 'help'
HelpRound ==
  (pc' = "helpLoop") =>
    LET prev == IF pc = "resolve" THEN args ELSE newestArgs
        first == ScanCandidates(prev)[1]
    IN  /\ first.data = tHelpWord
        /\ newestArgs' = KeepExcept(prev, {first.originalIndex})

HasEq(t) == \E k \in 1..Len(t) : t[k] = "="
EqIndex(t) == CHOOSE k \in 1..Len(t) : t[k] = "=" /\ \A j \in 1..(k - 1) : t[j] # "="
\* the part before the first '=' (the whole token when it has none)
BeforeEq(t) == IF HasEq(t) THEN SubSeq(t, 1, EqIndex(t) - 1) ELSE t
\* the part after the first '='
AfterEq(t) == SubSeq(t, EqIndex(t) + 1, Len(t))

SpecNames(o) == {o.name} \cup Range(o.aliases)
NamedSpecs(cmd) ==
  {o \in Range(CommandTable[cmd].options) : o.type # "positional"}

\* t is flag-prefixed, is no help or version flag, and matches no spec of cmd
IsUnmatchedFlag(cmd, t) ==
  /\ StartsWith(t, "-")
  /\ BeforeEq(t) \notin {tHelp, tH, tVersion, tV}
  /\ \A o \in NamedSpecs(cmd) : BeforeEq(t) \notin SpecNames(o)

\* the token scan of parseOptions ran to its end: no early help or version,
\* no error thrown on a token
ScanFinished ==
  /\ pCommand # "undefined"
  /\ pc \notin {"start", "parseLoop"}
  /\ i >= Len(pArgs)
  /\ optionResult.kind \notin {"help", "version"}

\* the required specs without a value after defaulting, in declaration order
StillMissing ==
  SelectSeq(CommandTable[pCommand].options,
            LAMBDA o : o.isRequired /\ Get(result, o.key) = Undefined)

(***************************************************************************)
(* C2, as claimed: a flag-prefixed token that matches no spec does not     *)
(* consume the token after it, so that, when no required option is         *)
(* missing, the Unrecognized error names every unmatched flag of the       *)
(* stream (stated for streams in which no token names a string or number   *)
(* spec, so that no unmatched flag is the value of a matched one).         *)
(***************************************************************************)
C2_AsClaimed ==
  (/\ ScanFinished
   /\ StillMissing = <<>>
   /\ \A k \in 1..Len(pArgs) :
        \A o \in NamedSpecs(pCommand) :
          BeforeEq(pArgs[k]) \in SpecNames(o) => o.type = "boolean")
    => \A k \in 1..Len(pArgs) :
         IsUnmatchedFlag(pCommand, pArgs[k]) =>
           /\ error.type = "UnrecognizedOptions"
           /\ BeforeEq(pArgs[k]) \in Range(error.args)

(***************************************************************************)
(* C3, as claimed: a token that is not flag-prefixed and meets an empty    *)
(* positional queue is dropped: it never enters the unrecognized set (and  *)
(* so causes no error).                                                    *)
(***************************************************************************)
C3_AsClaimed ==
  \A k \in 1..Len(unrecognizedArgsArr) : StartsWith(unrecognizedArgsArr[k], "-")

(***************************************************************************)
(* C6: whenever the token scan of parseOptions has run to its end and a    *)
(* required spec is still undefined after defaulting, the error raised is  *)
(* the MissingRequired error, whose entries are exactly those specs (name  *)
(* and aliases), one each, in declaration order, whether or not            *)
(* unrecognized flags were seen; otherwise no MissingRequired is raised.   *)
(***************************************************************************)
C6_MissingRequired ==
  ScanFinished =>
    IF StillMissing # <<>>
    THEN error = [type |-> "MissingRequired",
                  command |-> CommandTable[pCommand].name,
                  entries |-> [k \in 1..Len(StillMissing) |->
                                 [name |-> StillMissing[k].name,
                                  aliases |-> StillMissing[k].aliases]]]
    ELSE error.type # "MissingRequired"

\* both required options of a command were missing and an unrecognized flag
\* had been seen: the error lists the two
C6_Witness ==
  /\ ScanFinished
  /\ Len(StillMissing) = 2
  /\ unrecognizedArgsArr # <<>>
  /\ error.type = "MissingRequired"
  /\ Len(error.entries) = 2

(***************************************************************************)
(* C7: a step of parseOptions on a token that names a boolean spec.        *)
(* With an embedded value: "", "true", "1" give true, "false", "0" give    *)
(* false (case-insensitively), anything else raises InvalidBooleanSyntax.  *)
(* Without one: the following token is consumed exactly when it is one of  *)
(* the spellings in Consumed, and gives their value; otherwise it is left  *)
(* in the stream and the value is true.                                    *)
(***************************************************************************)
TrueWords == {<<>>, <<"t", "r", "u", "e">>, <<"1">>}
FalseWords == {<<"f", "a", "l", "s", "e">>, <<"0">>}
BooleanLiterals == (TrueWords \cup FalseWords) \ {<<>>}

BooleanStep(Consumed) ==
  (pc = "parseLoop" /\ i < Len(pArgs) /\ vars' # vars) =>
   \A o \in NamedSpecs(pCommand) :
    (o.type = "boolean" /\ BeforeEq(pArgs[i + 1]) \in SpecNames(o))
      => LET t == pArgs[i + 1]
             next == At(pArgs, i + 1)
             Value(b) == /\ error' = NoError
                         /\ Get(result', o.key) = BoolV(b)
         IN  IF HasEq(t)
             THEN IF ToLowerCase(AfterEq(t)) \in TrueWords THEN Value(TRUE) /\ i' = i + 1
                  ELSE IF ToLowerCase(AfterEq(t)) \in FalseWords
                  THEN Value(FALSE) /\ i' = i + 1
                  ELSE /\ error' = [type |-> "InvalidBooleanSyntax", name |-> BeforeEq(t)]
                       /\ pc' = "done"
             ELSE IF next = Undefined THEN Value(TRUE) /\ i' >= Len(pArgs)
             ELSE IF ~StartsWith(next.s, "-") /\ ToLowerCase(next.s) \in Consumed
             THEN Value(ToLowerCase(next.s) \in TrueWords) /\ i' = i + 2
             ELSE Value(TRUE) /\ i' = i + 1

\* as claimed: the following token is consumed only if it is a boolean literal
C7_AsClaimed == [][BooleanStep(BooleanLiterals)]_vars

\* amended: the following token is consumed exactly when it is a boolean
\* literal or the empty string (which gives true)
C7_BooleanSpelling == [][BooleanStep(BooleanLiterals \cup {<<>>})]_vars

\* a following token False was consumed as the flag's value, and the next
\* flag after it was parsed on its own
C7_Witness ==
  /\ Len(pArgs) = 3 /\ pArgs[1] = tB /\ pArgs[2] = tFalse /\ pArgs[3] = tBTrue
  /\ i = 2
  /\ Get(result, "flag") = BoolV(FALSE)
  /\ unrecognizedArgsArr = <<>>

(***************************************************************************)
(* command(): the definition of a command                                  *)
(***************************************************************************)
MaxAliases == 2

\* the names and aliases the definitions are drawn from
tDashX == <<"-", "x">>
tHelpUpper == <<"H", "E", "L", "P">>
tTrueMixed == <<"T", "r", "u", "e">>
tZero == <<"0">>
NameInputs == {tEmpty, tDashX, tHelpWord, tHelpUpper, tTrueMixed, tZero, tDb, tUp}

\* an option as it is given to command(): config.name may be absent
RawOpt(key, name, aliases, type) ==
  [key |-> key, name |-> name, aliases |-> aliases, type |-> type]

tF == <<"f">>
tFlagEq == <<"f", "=", "g">>
optF == RawOpt(tF, Undefined, <<>>, "boolean")
optUpF == RawOpt(tUp, Undefined, <<tF>>, "string")
optPosA == RawOpt(tA, Undefined, <<>>, "positional")

\* the option records the definitions are drawn from
RawOptionLists ==
  { <<>>, <<optF>>, <<optPosA>>, <<optF, optPosA>>,
    <<optF, optUpF>>, <<optF, optF>>,
    <<RawOpt(tDb, StrV(tFlagEq), <<>>, "boolean")>>,
    <<RawOpt(tDb, StrV(tUp), <<tFlagEq>>, "boolean")>>,
    <<RawOpt(tDb, StrV(tHelpWord), <<>>, "boolean")>>,
    <<RawOpt(tDb, StrV(tDb), <<tV>>, "string")>>,
    <<RawOpt(tDb, StrV(tDb), <<tDb>>, "string")>> }

RawCommands ==
  [ name : {Undefined} \cup {StrV(n) : n \in NameInputs},
    aliases : SeqsUpTo(NameInputs, MaxAliases),
    options : RawOptionLists,
    subcommands : BOOLEAN ]

DefinitionError(reason, name) ==
  [type |-> "DefinitionError", reason |-> reason, name |-> name]

generatePrefix(name) ==
  IF StartsWith(name, "-") THEN name
  ELSE IF Len(name) > 1 THEN <<"-", "-">> \o name ELSE <<"-">> \o name

\* cfg.name after `if (cfg.name === undefined) cfg.name = key`
KeyedName(o) == IF o.name = Undefined THEN o.key ELSE o.name.s

\* the first loop of validateOptions from entry k on: the error it throws
RECURSIVE CheckEq(_, _)
CheckEq(opts, k) ==
  IF k > Len(opts) THEN NoError
  ELSE LET o == opts[k] IN
    IF o.type = "positional" THEN CheckEq(opts, k + 1)
    ELSE IF Includes(KeyedName(o), "=")
            \/ \E a \in 1..Len(o.aliases) : Includes(o.aliases[a], "=")
    THEN DefinitionError("option names and aliases cannot contain '='", KeyedName(o))
    ELSE CheckEq(opts, k + 1)

\* the configs the first loop leaves: names and aliases prefixed
Prefixed(opts) ==
  [k \in 1..Len(opts) |->
     IF opts[k].type = "positional"
     THEN [opts[k] EXCEPT !.name = KeyedName(opts[k])]
     ELSE [opts[k] EXCEPT !.name = generatePrefix(KeyedName(opts[k])),
                          !.aliases = [a \in 1..Len(opts[k].aliases) |->
                                         generatePrefix(opts[k].aliases[a])]]]

reservedNames == {tHelp, tH, tVersion, tV}

\* the second loop of validateOptions from entry k on; stored is storedNames
RECURSIVE CheckNames(_, _, _)
CheckNames(opts, k, stored) ==
  IF k > Len(opts) THEN NoError
  ELSE LET cfg == opts[k]
           allNames == <<cfg.name>> \o cfg.aliases
           InUse(n) == \E st \in 1..Len(stored) : n \in Range(stored[st])
       IN
    IF cfg.type = "positional" THEN CheckNames(opts, k + 1, stored)
    ELSE IF \E n \in 1..Len(allNames) : allNames[n] \in reservedNames
    THEN DefinitionError("name is reserved", cfg.name)
    ELSE IF InUse(cfg.name)
    THEN DefinitionError("name is already in use", cfg.name)
    ELSE IF \E a \in 1..Len(cfg.aliases) : InUse(cfg.aliases[a])
    THEN DefinitionError("alias is already in use", cfg.name)
    ELSE IF \E a, b \in 1..Len(allNames) : a < b /\ allNames[a] = allNames[b]
    THEN DefinitionError("duplicate aliases", cfg.name)
    ELSE CheckNames(opts, k + 1, Append(stored, allNames))

\* validateOptions(config): the error it throws, or the processed options
validateOptions(opts) ==
  IF CheckEq(opts, 1) # NoError THEN [threw |-> CheckEq(opts, 1), options |-> <<>>]
  ELSE [threw |-> CheckNames(Prefixed(opts), 1, <<>>), options |-> Prefixed(opts)]

\* the name or Undefined as a text for the error message
NameText(n) == IF n = Undefined THEN <<>> ELSE n.s

\* the allNames.forEach of command(), from index k on (allNames holds JS
\* values: its first entry is undefined when the definition has no name)
RECURSIVE CheckCommandNames(_, _, _)
CheckCommandNames(allNames, k, cmdName) ==
  IF k > Len(allNames) THEN NoError
  ELSE LET n == allNames[k] IN
    IF n = StrV(tHelpWord)
    THEN DefinitionError("'help' is a reserved name", cmdName)
    ELSE IF OptLower(n) \in {StrV(<<"0">>), StrV(<<"1">>), StrV(tTrue),
                             StrV(<<"f", "a", "l", "s", "e">>)}
    THEN DefinitionError("reserved for boolean values", cmdName)
    ELSE IF \E j \in 1..(k - 1) : allNames[j] = n
    THEN DefinitionError("duplicate alias", cmdName)
    ELSE CheckCommandNames(allNames, k + 1, cmdName)

\* command(raw): the error it throws, or the command it returns
DefineResult(raw) ==
  LET allNames == <<raw.name>> \o [a \in 1..Len(raw.aliases) |-> StrV(raw.aliases[a])]
      hasPositional == \E k \in 1..Len(raw.options) : raw.options[k].type = "positional"
      processed == validateOptions(raw.options)
      \* cmd.name = cmd.name ?? cmd.aliases?.shift()
      name == IF raw.name # Undefined THEN raw.name
              ELSE IF raw.aliases # <<>> THEN StrV(Head(raw.aliases)) ELSE Undefined
      aliases == IF raw.name = Undefined /\ raw.aliases # <<>>
                 THEN Tail(raw.aliases) ELSE raw.aliases
      Fail(e) == [threw |-> e, cmd |-> NoCommand]
  IN
    IF raw.subcommands /\ raw.options # <<>> /\ hasPositional
    THEN Fail(DefinitionError("subcommands and positional args", NameText(raw.name)))
    ELSE IF raw.options # <<>> /\ processed.threw # NoError THEN Fail(processed.threw)
    ELSE IF name = Undefined \/ name.s = <<>>
    THEN Fail(DefinitionError("command without name", <<>>))
    ELSE IF StartsWith(name.s, "-")
    THEN Fail(DefinitionError("command name can't start with '-'", name.s))
    ELSE IF \E a \in 1..Len(aliases) : StartsWith(aliases[a], "-")
    THEN Fail(DefinitionError("command aliases can't start with '-'", name.s))
    ELSE IF CheckCommandNames(allNames, 1, name.s) # NoError
    THEN Fail(CheckCommandNames(allNames, 1, name.s))
    ELSE [threw |-> NoError,
          cmd |-> [name |-> name, aliases |-> aliases,
                   options |-> IF raw.options = <<>> THEN <<>> ELSE processed.options,
                   subcommands |-> raw.subcommands]]

\* command(raw) is called
InitCommand ==
  /\ entry = "command"
  /\ commands = <<>>
  /\ config = [hook |-> FALSE, omitKeysOfUndefinedOptions |-> FALSE]
  /\ args = <<>>
  /\ command = "undefined"
  /\ rawCommand \in RawCommands /\ defined = NoCommand
  /\ tree = CommandTable /\ argSource = <<>> /\ run = 1 /\ history = NoHistory
  /\ Locals

\* command(raw) throws or returns
DefineCommand ==
  /\ pc = "start" /\ entry = "command"
  /\ LET r == DefineResult(rawCommand) IN
       /\ error' = r.threw
       /\ defined' = r.cmd
  /\ pc' = "done"
  /\ UNCHANGED <<entry, commands, config, args, rawCommand, runVars, events,
                 testResult, cbVars, gcVars, cliVars, poVars>>

SpecCommand == InitCommand /\ [][DefineCommand]_vars

\* n is a name command() must not accept, as C11 reads it
Unacceptable(n) ==
  \/ n = <<>>
  \/ StartsWith(n, "-")
  \/ ToLowerCase(n) \in {tHelpWord, <<"0">>, <<"1">>, tTrue, <<"f", "a", "l", "s", "e">>}

GivenNames(raw) ==
  (IF raw.name = Undefined THEN {} ELSE {raw.name.s}) \cup Range(raw.aliases)

(***************************************************************************)
(* C11, as claimed: command() ends with a definition error and produces no *)
(* command whenever the name or an alias of the definition is empty,       *)
(* starts with '-', or equals help, 0, 1, true or false in any case.       *)
(***************************************************************************)
C11_AsClaimed ==
  (entry = "command" /\ pc = "done"
   /\ \E n \in GivenNames(rawCommand) : Unacceptable(n))
    => error.type = "DefinitionError" /\ defined = NoCommand

(***************************************************************************)
(* Successive invocations on one command tree                              *)
(***************************************************************************)
MaxRuns == 3

\* a forest in which two top-level commands share a name
RunForests == Forests \cup {<<"push", "pushB">>}

cfgPlain == [hook |-> FALSE, omitKeysOfUndefinedOptions |-> FALSE]
cfgHooked == [hook |-> TRUE, omitKeysOfUndefinedOptions |-> TRUE]

RunInput(e, cfg, cmd, a) == [entry |-> e, config |-> cfg, command |-> cmd, args |-> a]

\* the calls the caller makes
RunInputs ==
  { RunInput("rawCli", cfgPlain, "undefined", <<>>),
    RunInput("rawCli", cfgPlain, "undefined", <<tDb, tMigrate>>),
    RunInput("rawCli", cfgHooked, "undefined", <<tPush, tSA>>),
    RunInput("rawCli", cfgPlain, "undefined", <<tPush, tB>>),
    RunInput("rawCli", cfgPlain, "undefined", <<tHelpWord, tDb>>),
    RunInput("rawCli", cfgPlain, "undefined", <<tUp>>),
    RunInput("rawCli", cfgPlain, "undefined", <<tDb, tHelp>>),
    RunInput("rawCli", cfgPlain, "undefined", <<tV>>),
    RunInput("test", cfgPlain, "deploy", <<tA, tA, tSA>>),
    RunInput("test", cfgPlain, "deploy", <<tA, tSA, tC>>),
    RunInput("test", cfgPlain, "deploy", <<tNope>>),
    RunInput("test", cfgPlain, "mig", <<tB, tFalse>>) }

\* what the caller passed to the invocation under way
CurrentInput ==
  RunInput(entry, config, IF entry = "test" THEN command ELSE "undefined", args)

\* what the caller observes of an invocation
Outcome == [events |-> events, error |-> error, testResult |-> testResult, calls |-> calls]

\* the caller calls rawCli or test with input inp
Call(inp) ==
  /\ entry = inp.entry
  /\ config = inp.config
  /\ args = inp.args
  /\ argSource = IF inp.entry = "rawCli" THEN <<tNode, tScript>> \o inp.args ELSE <<>>
  /\ pc = IF inp.entry = "rawCli" THEN "validate" ELSE "start"

InitRuns ==
  /\ commands \in RunForests
  /\ \E inp \in RunInputs : Call(inp) /\ command = inp.command
  /\ FirstRun
  /\ events = <<>> /\ error = NoError /\ testResult = NoTestResult
  /\ calls = <<>> /\ running = {}
  /\ ret = "none" /\ gcArgs = <<>> /\ candidates = <<>> /\ curCommands = <<>>
  /\ curArgs = <<>> /\ parentCmd = "none" /\ gcResult = NoResult
  /\ newArgs = <<>> /\ newestArgs = <<>> /\ optionResult = NoOptions
  /\ pCommand = "undefined" /\ pArgs = <<>> /\ i = 0 /\ result = <<>>
  /\ unrecognizedArgsArr = <<>> /\ positionalEntries = <<>>

\* validateCommands(cmds, parent) from entry k on: the Error it throws
RECURSIVE validateCommands(_, _, _)
validateCommands(cmds, k, storedNames) ==
  IF k > Len(cmds) THEN NoError
  ELSE LET cmd == tree[cmds[k]]
           InUse(n) == \E st \in 1..Len(storedNames) : n \in Range(storedNames[st])
           Err(reason) == [type |-> "Error", reason |-> reason,
                           command |-> getCommandNameRecursive(cmds[k])]
       IN
    IF InUse(cmd.name) THEN Err("name is already in use")
    ELSE IF \E a \in 1..Len(cmd.aliases) : InUse(cmd.aliases[a])
    THEN Err("alias is already in use")
    ELSE LET sub == IF cmd.subcommands # <<>>
                    THEN validateCommands(cmd.subcommands, 1, <<>>) ELSE NoError
         IN  IF sub # NoError THEN sub
             ELSE validateCommands(cmds, k + 1,
                                   Append(storedNames, <<cmd.name>> \o cmd.aliases))

\* the commands validateCommands(cmds) visits
RECURSIVE Visited(_)
Visited(cmds) ==
  Range(cmds) \cup UNION {Visited(tree[c].subcommands) : c \in Range(cmds)}

\* const processedCmds = validateCommands(commands); each visited command with
\* subcommands is assigned the array validateCommands returns for them, which
\* is the array it was given
Validate ==
  /\ pc = "validate" /\ entry = "rawCli"
  /\ tree' = [c \in DOMAIN tree |->
                IF c \in Visited(commands) /\ tree[c].subcommands # <<>>
                THEN [tree[c] EXCEPT !.subcommands = tree[c].subcommands]
                ELSE tree[c]]
  /\ LET e == validateCommands(commands, 1, <<>>) IN
       IF e # NoError THEN Throw(e) /\ UNCHANGED events
       ELSE pc' = "start" /\ UNCHANGED outVars
  /\ UNCHANGED <<entry, commands, config, args, defVars, argSource, run, history,
                 cbVars, gcVars, cliVars, poVars>>

\* the invocation has ended and the caller makes its next call; what the
\* ended invocation left in its locals is left where it is
NextRun ==
  /\ pc = "done" /\ run < MaxRuns
  /\ \E inp \in RunInputs :
       /\ entry' = inp.entry
       /\ config' = inp.config
       /\ args' = inp.args
       /\ argSource' = IF inp.entry = "rawCli" THEN <<tNode, tScript>> \o inp.args ELSE <<>>
       /\ pc' = IF inp.entry = "rawCli" THEN "validate" ELSE "start"
       /\ command' = IF inp.entry = "test" THEN inp.command ELSE command
  /\ run' = run + 1
  /\ history' = [passed |-> argSource',
                 prev |-> CurrentInput,
                 first |-> IF run = 1 THEN [input |-> CurrentInput, outcome |-> Outcome]
                           ELSE history.first]
  /\ events' = <<>> /\ error' = NoError /\ testResult' = NoTestResult
  /\ calls' = <<>> /\ running' = {}
  /\ UNCHANGED <<commands, defVars, tree, gcVars, newArgs, newestArgs, optionResult,
                 poVars>>

NextRuns ==
  \/ Validate \/ Next
  \/ Test \/ TestParsed \/ TestTransformSettles
  \/ NextRun

SpecRuns == InitRuns /\ [][NextRuns]_vars

(***************************************************************************)
(* C12: over successive invocations (rawCli or test) on one command tree,  *)
(* no invocation changes the command objects or the array the caller       *)
(* passed, and an invocation given the input of the first one ends with    *)
(* the outcome of the first one, whatever ran in between (the callbacks    *)
(* fulfilling in both).                                                    *)
(***************************************************************************)
C12_NoSharedState ==
  /\ tree = CommandTable
  /\ argSource = history.passed
  /\ (/\ pc = "done" /\ run > 1
      /\ CurrentInput = history.first.input
      /\ error.type # "CallbackError"
      /\ history.first.outcome.error.type # "CallbackError")
       => Outcome = history.first.outcome

\* a third call repeats the first after a different second one; it fills the
\* positionals of the command again and returns the same options
C12_Witness ==
  /\ pc = "done" /\ run = 3
  /\ CurrentInput = history.first.input
  /\ history.prev # CurrentInput /\ history.prev.entry = "rawCli"
  /\ entry = "test" /\ command = "deploy"
  /\ testResult.type = "handler"
  /\ Outcome = history.first.outcome

(***************************************************************************)
(* C13, as claimed: a step of parseOptions on a token t that is not        *)
(* flag-prefixed, while positional specs remain, takes the next positional *)
(* spec in declaration order; if the spec has an enum and t is not in it,  *)
(* EnumViolation naming the spec and t is raised; otherwise t is recorded  *)
(* as the spec's value and the following token is left to be parsed,       *)
(* whatever it is.                                                         *)
(***************************************************************************)
PositionalStep ==
  (/\ pc = "parseLoop" /\ i < Len(pArgs) /\ vars' # vars
   /\ ~StartsWith(pArgs[i + 1], "-")
   /\ positionalEntries # <<>>)
    => LET t == pArgs[i + 1]
           pos == Head(positionalEntries)
       IN  IF pos.enumVals # <<>> /\ t \notin Range(pos.enumVals)
           THEN /\ error'.type = "EnumViolation"
                /\ error'.name = pos.name
                /\ error'.data = StrV(t)
           ELSE /\ error' = NoError
                /\ Get(result', pos.key) = StrV(t)
                /\ positionalEntries' = Tail(positionalEntries)
                /\ i' = i + 1

C13_AsClaimed == [][PositionalStep]_vars

(***************************************************************************)
(* C14, as claimed: on a token stream without --help / -h, a --version or  *)
(* -v (the first one) that is not immediately preceded by a flag-prefixed  *)
(* token lacking '=' routes rawCli to the version event: exactly that      *)
(* event is emitted, no error is raised and no callback is called.         *)
(***************************************************************************)
IsVersionFlag(t) == t \in {tVersion, tV}

FirstVersionQualifies(a) ==
  \E k \in 1..Len(a) :
    /\ IsVersionFlag(a[k])
    /\ \A j \in 1..(k - 1) : ~IsVersionFlag(a[j])
    /\ QualifiesAt(a, k)

C14_AsClaimed ==
  (/\ entry = "rawCli" /\ pc = "done"
   /\ \A k \in 1..Len(args) : ~IsHelpFlag(args[k])
   /\ FirstVersionQualifies(args))
    => /\ events = <<Version>>
       /\ error = NoError
       /\ calls = <<>>

====
